---- MODULE Spec2Model ----
(***************************************************************************)
(* rmf_task::Log, Log::View, Log::Reader and Log::Reader::Iterable         *)
(* (src/unnamed/part_000, lines 94-433).                                   *)
(*                                                                         *)
(* A Log owns a std::shared_ptr<std::list<Entry>>.  A View and an Iterable *)
(* hold further strong references to the same list; a Reader holds one     *)
(* weak reference per address it has met.  A list is destroyed when its    *)
(* last strong holder goes; its address may then be handed out again.      *)
(*                                                                         *)
(* A list iterator is modelled by the index of the node it points at       *)
(* (1..Len, stable under emplace_back), End for the list's end() sentinel  *)
(* and None for an empty std::optional.                                    *)
(***************************************************************************)
EXTENDS Integers, Sequences, FiniteSets, TLC

\* ---- bounds of the model ----
\* list instances ever created
MaxSeq == 2
\* entries appended to one list
MaxLen == 2
\* Views existing at one time
MaxViews == 2
\* iterate calls made, over all Readers
MaxCalls == 3

\* the Readers, each with its own consumer
Readers == {"R1", "R2"}
\* the addresses the allocator hands out for lists
Addrs == {"A1"}
SeqIds == 1..MaxSeq

\* ---- values ----
\* std::nullopt of optional<const_iterator>, and an empty weak_ptr
None == 0
\* std::list::end(), the sentinel one past the last node
End == -1
\* a null iterator::_pimpl (the Done cursor)
Null == [done |-> TRUE]
\* no address: list instance s does not exist yet
NoAddr == "null"
\* a cursor after an operation with undefined behaviour ended the run
Fault == [fault |-> TRUE]
\* the consumer of a Reader holds no Iterable
NoIterable == [none |-> TRUE]

\* arguments of the append calls
Texts == {"a"}
Times == {1}
\* entries built elsewhere and handed to Log::insert
Foreign == {[tier |-> "Warning", time |-> 0, text |-> "x"]}

VARIABLES
  nextId,     \* number of std::list instances created so far, plus one
  addr,       \* addr[s]: the address (identity key) of list instance s
  logAlive,   \* logAlive[s]: the Log owning instance s still exists
  entries,    \* entries[s]: the std::list<Entry> of instance s
  appended,   \* appended[s]: the arguments of the append calls made on s
  views,      \* the Views that currently exist
  memories,   \* memories[r]: Reader r's unordered_map<const void*, Memory>
  cur,        \* cur[r]: the Iterable (and its cursor) r's consumer holds
  hist        \* hist[r]: one record per iterate call made on Reader r

vars == <<nextId, addr, logAlive, entries, appended, views, memories, cur, hist>>

\* ---- shared ownership ----
\* instance s has a strong holder among the Logs la, Views vs, Iterables cu
AliveIn(s, la, vs, cu) ==
  \/ la[s]
  \/ \E v \in vs : v.shared = s
  \/ \E r \in Readers : cu[r] # NoIterable /\ cu[r].shared = s

Alive(s) == s \in SeqIds /\ s < nextId /\ AliveIn(s, logAlive, views, cur)

\* Lock without the liveness test: an expired weak_ptr still locks (a fault
\* C7 has to detect)
LockExpired(w) == w # None

\* weak_ptr::lock(): a strong reference, if the instance still exists
Lock(w) == w # None /\ Alive(w)

\* Reap that frees a list with its Log, whoever else holds it (a fault C11
\* has to detect)
ReapWithLog(f, la, vs, cu) ==
  [s \in SeqIds |-> IF la[s] THEN f[s] ELSE <<>>]

\* the lists left once the holders are la, vs, cu: a list without holder is freed
Reap(f, la, vs, cu) ==
  [s \in SeqIds |-> IF AliveIn(s, la, vs, cu) THEN f[s] ELSE <<>>]

\* ---- Log::Entry ----
\* MakeEntry that drops the tier (a fault C10 has to detect)
MakeEntryInfo(tier, time, text) == [tier |-> "Info", time |-> time, text |-> text]

\* Entry::Implementation::make
MakeEntry(tier, time, text) == [tier |-> tier, time |-> time, text |-> text]

\* ---- Log::View ----
\* View::Implementation::make; size (the number of entries present when the
\* View is taken) is kept for the properties only
MakeView(s) ==
  IF entries[s] = <<>>
    THEN [shared |-> s, begin |-> None, last |-> None, size |-> 0]
    ELSE [shared |-> s, begin |-> 1, last |-> Len(entries[s]),
          size |-> Len(entries[s])]

Init ==
  /\ nextId = 1
  /\ addr = [s \in SeqIds |-> NoAddr]
  /\ logAlive = [s \in SeqIds |-> FALSE]
  /\ entries = [s \in SeqIds |-> <<>>]
  /\ appended = [s \in SeqIds |-> <<>>]
  /\ views = {}
  /\ memories = [r \in Readers |-> [k \in {} |-> None]]
  /\ cur = [r \in Readers |-> NoIterable]
  /\ hist = [r \in Readers |-> <<>>]

\* Log::Log: a new, empty list at an address no existing list occupies; the
\* address of a destroyed list may be handed out again
NewLog(a) ==
  /\ nextId <= MaxSeq
  /\ \A s \in SeqIds : Alive(s) => addr[s] # a
  /\ nextId' = nextId + 1
  /\ addr' = [addr EXCEPT ![nextId] = a]
  /\ logAlive' = [logAlive EXCEPT ![nextId] = TRUE]
  /\ UNCHANGED <<entries, appended, views, memories, cur, hist>>

\* the append calls stop at MaxLen entries
CanAppend(s) == Alive(s) /\ logAlive[s] /\ Len(entries[s]) < MaxLen

\* Log::info
Info(s, text, now) ==
  /\ CanAppend(s)
  /\ entries' = [entries EXCEPT ![s] = Append(@, MakeEntry("Info", now, text))]
  /\ appended' = [appended EXCEPT
                    ![s] = Append(@, [tier |-> "Info", time |-> now, text |-> text])]
  /\ UNCHANGED <<nextId, addr, logAlive, views, memories, cur, hist>>

\* Log::warn
Warn(s, text, now) ==
  /\ CanAppend(s)
  /\ entries' = [entries EXCEPT ![s] = Append(@, MakeEntry("Warning", now, text))]
  /\ appended' = [appended EXCEPT
                    ![s] = Append(@, [tier |-> "Warning", time |-> now, text |-> text])]
  /\ UNCHANGED <<nextId, addr, logAlive, views, memories, cur, hist>>

\* Log::error
Error(s, text, now) ==
  /\ CanAppend(s)
  /\ entries' = [entries EXCEPT ![s] = Append(@, MakeEntry("Error", now, text))]
  /\ appended' = [appended EXCEPT
                    ![s] = Append(@, [tier |-> "Error", time |-> now, text |-> text])]
  /\ UNCHANGED <<nextId, addr, logAlive, views, memories, cur, hist>>

\* Log::insert
Insert(s, entry) ==
  /\ CanAppend(s)
  /\ entries' = [entries EXCEPT ![s] = Append(@, entry)]
  /\ appended' = [appended EXCEPT ![s] = Append(@, entry)]
  /\ UNCHANGED <<nextId, addr, logAlive, views, memories, cur, hist>>

\* Log::info called while a consumer holds an Iterable of the list: one such
\* append may come on top of the MaxLen entries
InfoDuring(s, text, now) ==
  /\ Alive(s) /\ logAlive[s] /\ Len(entries[s]) <= MaxLen
  /\ \E r \in Readers : cur[r] # NoIterable /\ cur[r].shared = s
  /\ entries' = [entries EXCEPT ![s] = Append(@, MakeEntry("Info", now, text))]
  /\ appended' = [appended EXCEPT
                    ![s] = Append(@, [tier |-> "Info", time |-> now, text |-> text])]
  /\ UNCHANGED <<nextId, addr, logAlive, views, memories, cur, hist>>

\* Log::view
TakeView(s) ==
  /\ Alive(s) /\ logAlive[s]
  /\ MakeView(s) \notin views
  /\ Cardinality(views) < MaxViews
  /\ views' = views \cup {MakeView(s)}
  /\ UNCHANGED <<nextId, addr, logAlive, entries, appended, memories, cur, hist>>

\* a View is destroyed; it releases its strong reference
DropView(v) ==
  /\ v \in views
  /\ views' = views \ {v}
  /\ entries' = Reap(entries, logAlive, views', cur)
  /\ appended' = Reap(appended, logAlive, views', cur)
  /\ UNCHANGED <<nextId, addr, logAlive, memories, cur, hist>>

\* a Log is destroyed; it releases its strong reference
DropLog(s) ==
  /\ s < nextId /\ logAlive[s]
  /\ logAlive' = [logAlive EXCEPT ![s] = FALSE]
  /\ entries' = Reap(entries, logAlive', views, cur)
  /\ appended' = Reap(appended, logAlive', views, cur)
  /\ UNCHANGED <<nextId, addr, views, memories, cur, hist>>

\* ---- Log::Reader::Iterable::iterator ----
\* std::list<Entry>::const_iterator::operator++ on a node of a list of n nodes
StepIt(it, n) == IF it < n THEN it + 1 ELSE End

\* iterator::Implementation::make
MakeIterator(it, last) == [it |-> it, last |-> last]

\* Incr that is Done one entry early (a fault C14 has to detect)
IncrShort(c, n) ==
  IF StepIt(c.it, n) = c.last THEN Null ELSE MakeIterator(StepIt(c.it, n), c.last)

\* iterator::operator++ on a cursor whose position is a node
Incr(c, n) ==
  IF c.it = c.last THEN Null ELSE MakeIterator(StepIt(c.it, n), c.last)

\* the positions a range-for over the Iterable dereferences, from cursor c on,
\* in a list of n nodes; the walk stops where it would read the end() sentinel
RECURSIVE Walk(_, _)
Walk(c, n) ==
  IF c = Null THEN <<>>
  ELSE IF c.it = End THEN <<>>
  ELSE <<c.it>> \o Walk(Incr(c, n), n)

\* the range-for runs into the end() sentinel (undefined behaviour from there)
RECURSIVE WalkUB(_, _)
WalkUB(c, n) ==
  IF c = Null THEN FALSE
  ELSE IF c.it = End THEN TRUE
  ELSE WalkUB(Incr(c, n), n)

\* ---- Log::Reader::Iterable ----
\* Iterable::Implementation::make; last.value() throws on an empty optional
MakeThrows(begin, last) == begin # None /\ last = None

\* got (the positions read through the Iterable so far) is kept for the
\* properties only
MakeIterable(shared, begin, last) ==
  [shared |-> shared,
   pimpl |-> IF begin # None THEN MakeIterator(begin, last) ELSE Null,
   got |-> <<>>]

\* ---- Log::Reader ----
\* Memory::Memory
NewMemory == [weak |-> None, last |-> None]

\* memories.insert({key, Memory()}).first->second
Slot(r, key) ==
  IF key \in DOMAIN memories[r] THEN memories[r][key] ELSE NewMemory

\* Resume that forgets the recorded position (a fault C13 has to detect)
ResumeAtBegin(m, v) == [weak |-> v.shared, last |-> v.begin]

\* Resume without lines 277-278: a slot without position stays without (a
\* fault C17 has to detect)
ResumeUnset(m, v) ==
  IF Lock(m.weak) THEN m ELSE [weak |-> v.shared, last |-> v.begin]

\* lines 275-284: the slot after the liveness check
Resume(m, v) ==
  IF Lock(m.weak)
    THEN IF m.last = None THEN [m EXCEPT !.last = v.begin] ELSE m
    ELSE [weak |-> v.shared, last |-> v.begin]

\* Remember that leaves the position where it was (a fault C2 has to detect)
RememberNothing(m, v) == m

\* line 289: the slot once the Iterable is built
Remember(m, v) == [m EXCEPT !.last = v.last]

\* Store into one registry shared by all Readers (a fault C8 has to detect)
StoreAll(r, key, m) ==
  [q \in Readers |->
     [k \in DOMAIN memories[q] \cup {key} |-> IF k = key THEN m ELSE memories[q][k]]]

\* the writes through `memory`, a reference into Reader r's own map
Store(r, key, m) ==
  [memories EXCEPT
     ![r] = [k \in DOMAIN @ \cup {key} |-> IF k = key THEN m ELSE @[k]]]

\* number of iterate calls made so far
RECURSIVE Calls(_)
Calls(R) ==
  IF R = {} THEN 0
  ELSE LET r == CHOOSE x \in R : TRUE IN Len(hist[r]) + Calls(R \ {r})

\* Log::Reader::Implementation::iterate, on View v.  A throw out of
\* Iterable::Implementation::make leaves line 289 undone and hands the caller
\* no Iterable.  The call is recorded in hist[r]:
\*   shared, vbegin, vlast, vsize  the View passed
\*   fresh    the Reader's map was empty (its first call)
\*   stale    the slot tracked a list that no longer exists
\*   before, start, after   memory.last on entry, at line 287, on exit
\*   weak     memory.weak on exit
\*   threw    the call ended in std::bad_optional_access
\*   out, vals, ub   the positions and entries a range-for over the returned
\*            Iterable reads, and whether it then runs into end()
Iterate(r, v) ==
  LET key == addr[v.shared]
      m0 == Slot(r, key)
      m1 == Resume(m0, v)
      threw == MakeThrows(m1.last, v.last)
      it == MakeIterable(v.shared, m1.last, v.last)
      m2 == IF threw THEN m1 ELSE Remember(m1, v)
      n == Len(entries[v.shared])
      out == IF threw THEN <<>> ELSE Walk(it.pimpl, n)
      call == [shared |-> v.shared, vbegin |-> v.begin, vlast |-> v.last,
               vsize |-> v.size,
               fresh |-> DOMAIN memories[r] = {},
               stale |-> m0.weak # None /\ ~Alive(m0.weak),
               before |-> m0.last, start |-> m1.last,
               weak |-> m2.weak, after |-> m2.last,
               threw |-> threw, out |-> out,
               vals |-> [i \in DOMAIN out |-> entries[v.shared][out[i]]],
               ub |-> IF threw THEN FALSE ELSE WalkUB(it.pimpl, n)]
  IN
  /\ v \in views
  /\ Calls(Readers) < MaxCalls
  /\ memories' = Store(r, key, m2)
  /\ cur' = IF threw THEN cur ELSE [cur EXCEPT ![r] = it]
  /\ hist' = [hist EXCEPT ![r] = Append(@, call)]
  /\ entries' = Reap(entries, logAlive, views, cur')
  /\ appended' = Reap(appended, logAlive, views, cur')
  /\ UNCHANGED <<nextId, addr, logAlive, views>>

\* iterator::operator++ on the cursor r's consumer holds.  Reading _pimpl->it
\* through a null _pimpl, and ++ on the list's end(), are undefined: the run
\* faults, or goes on as the usual builds do (a null cursor left as it is; a
\* circular list stepping from its sentinel to its first node)
AdvanceTo(c, n) ==
  IF c = Fault THEN {Fault}
  ELSE IF c = Null THEN {Null, Fault}
  ELSE IF c.it = c.last THEN {Null}
  ELSE IF c.it = End THEN {MakeIterator(1, c.last), Fault}
  ELSE {Incr(c, n)}

\* iterator::operator== on two cursors that have not faulted
IteratorEq(a, b) ==
  IF a = Null \/ b = Null THEN a = b ELSE a.it = b.it

\* the cursor of Iterable i stands at a position its consumer has not read
Unread(i) ==
  /\ i.pimpl \notin {Null, Fault}
  /\ IF i.got = <<>> THEN TRUE ELSE i.got[Len(i.got)] # i.pimpl.it

\* iterator::operator* on the cursor r's consumer holds, once per position as
\* in a range-for.  Reading the list's end() sentinel is undefined: the run
\* faults, or reads whatever the sentinel node holds
Deref(r) ==
  /\ cur[r] # NoIterable
  /\ Unread(cur[r])
  /\ \/ cur' = [cur EXCEPT ![r].got = Append(@, cur[r].pimpl.it)]
     \/ cur[r].pimpl.it = End /\ cur' = [cur EXCEPT ![r].pimpl = Fault]
  /\ UNCHANGED <<nextId, addr, logAlive, entries, appended, views, memories, hist>>

\* Advance that also clears the Reader's slots (a fault C16 has to detect)
AdvanceAndForget(r) ==
  /\ cur[r] # NoIterable
  /\ ~Unread(cur[r])
  /\ \E c \in AdvanceTo(cur[r].pimpl, Len(entries[cur[r].shared])) :
       /\ c # cur[r].pimpl
       /\ cur' = [cur EXCEPT ![r].pimpl = c]
  /\ memories' = [memories EXCEPT ![r] = [k \in DOMAIN @ |-> NewMemory]]
  /\ UNCHANGED <<nextId, addr, logAlive, entries, appended, views, hist>>

\* the range-for's ++ follows its read of the entry; ++ on a Done cursor is
\* the caller's own step
Advance(r) ==
  /\ cur[r] # NoIterable
  /\ ~Unread(cur[r])
  /\ \E c \in AdvanceTo(cur[r].pimpl, Len(entries[cur[r].shared])) :
       /\ c # cur[r].pimpl
       /\ cur' = [cur EXCEPT ![r].pimpl = c]
  /\ UNCHANGED <<nextId, addr, logAlive, entries, appended, views, memories, hist>>

\* the consumer lets go of its Iterable, which releases its strong reference
Discard(r) ==
  /\ cur[r] # NoIterable
  /\ cur' = [cur EXCEPT ![r] = NoIterable]
  /\ entries' = Reap(entries, logAlive, views, cur')
  /\ appended' = Reap(appended, logAlive, views, cur')
  /\ UNCHANGED <<nextId, addr, logAlive, views, memories, hist>>

\* ---- specifications ----
\* One consumer; lists are created, destroyed and their address reused; the
\* Log is written with info.
Next ==
  \/ \E a \in Addrs : NewLog(a)
  \/ \E s \in SeqIds, text \in Texts, now \in Times : Info(s, text, now)
  \/ \E s \in SeqIds : TakeView(s)
  \/ \E v \in views : DropView(v)
  \/ \E s \in SeqIds : DropLog(s)
  \/ \E v \in views : Iterate("R1", v)
  \/ Deref("R1")
  \/ Advance("R1")
  \/ Discard("R1")

Spec == Init /\ [][Next]_vars

\* Two consumers of one Log that lives on.
NextReaders ==
  \/ \E a \in Addrs : NewLog(a)
  \/ \E s \in SeqIds, text \in Texts, now \in Times : Info(s, text, now)
  \/ \E s \in SeqIds : TakeView(s)
  \/ \E v \in views : DropView(v)
  \/ \E r \in Readers, v \in views : Iterate(r, v)
  \/ \E r \in Readers : Deref(r)
  \/ \E r \in Readers : Advance(r)
  \/ \E r \in Readers : Discard(r)

SpecReaders == Init /\ [][NextReaders]_vars

\* One Log written with all four append calls, its Views, and one Reader.
NextAppend ==
  \/ \E a \in Addrs : NewLog(a)
  \/ \E s \in SeqIds, text \in Texts, now \in Times : Info(s, text, now)
  \/ \E s \in SeqIds, text \in Texts, now \in Times : Warn(s, text, now)
  \/ \E s \in SeqIds, text \in Texts, now \in Times : Error(s, text, now)
  \/ \E s \in SeqIds, entry \in Foreign : Insert(s, entry)
  \/ \E s \in SeqIds : TakeView(s)
  \/ \E v \in views : DropView(v)
  \/ \E v \in views : Iterate("R1", v)

SpecAppend == Init /\ [][NextAppend]_vars

\* One consumer traversing, or letting go of, its Iterable while the Log is
\* appended to.
NextFrozen ==
  \/ \E a \in Addrs : NewLog(a)
  \/ \E s \in SeqIds, text \in Texts, now \in Times : Info(s, text, now)
  \/ \E s \in SeqIds, text \in Texts, now \in Times : InfoDuring(s, text, now)
  \/ \E s \in SeqIds : TakeView(s)
  \/ \E v \in views : Iterate("R1", v)
  \/ Deref("R1")
  \/ Advance("R1")
  \/ Discard("R1")

SpecFrozen == Init /\ [][NextFrozen]_vars

\* ---- properties ----
\* the iterate calls made so far, as (Reader, index) pairs
CallIds == {rk \in Readers \X (1..MaxCalls) : rk[2] \in DOMAIN hist[rk[1]]}
Call(rk) == hist[rk[1]][rk[2]]

\* the set of values of sequence q
Range(q) == {q[i] : i \in DOMAIN q}

\* C1 (snapshot isolation): every entry an iterate call hands out through a
\* View was in the list when the View was taken - whatever the Reader had
\* iterated before.
C1_SnapshotIsolation ==
  \A rk \in CallIds : \A p \in Range(Call(rk).out) : p <= Call(rk).vsize

\* C3 (iterate never raises): no iterate call ends by throwing.
C3_IterateNeverThrows ==
  \A rk \in CallIds : ~Call(rk).threw

\* C4 (empty log): iterate on a View taken from an empty Log returns an empty
\* Iterable, for any Reader in any state.
C4_EmptyViewYieldsEmpty ==
  \A rk \in CallIds :
    Call(rk).vsize = 0 => ~Call(rk).threw /\ Call(rk).out = <<>>

\* C6 (position monotonicity): the position a Reader records for a list after
\* an iterate call is never earlier than the one it recorded after a previous
\* call on that list, whatever order the Views are passed in.
C6_PositionMonotone ==
  \A r \in Readers : \A j, k \in DOMAIN hist[r] :
    j < k /\ hist[r][j].shared = hist[r][k].shared
      => hist[r][j].after <= hist[r][k].after

\* the calls Reader r made on Views of list instance s, in call order
CallsOn(r, s) == SelectSeq(hist[r], LAMBDA c : c.shared = s)

\* the positions handed out by the calls cs, one call after the other
RECURSIVE Delivered(_)
Delivered(cs) ==
  IF cs = <<>> THEN <<>> ELSE Head(cs).out \o Delivered(Tail(cs))

\* the calls cs were made on Views in the order the Views were taken
InSnapshotOrder(cs) ==
  \A j, k \in DOMAIN cs : j < k => cs[j].vsize <= cs[k].vsize

\* the greatest m >= k such that k+1, ..., m occur in q in this order
RECURSIVE Covered(_, _)
Covered(k, q) ==
  IF q = <<>> THEN k
  ELSE Covered(IF Head(q) = k + 1 THEN k + 1 ELSE k, Tail(q))

NonDecreasing(q) == \A i, j \in DOMAIN q : i < j => q[i] <= q[j]

\* C2 (no loss): when a Reader iterates successive Views of one growing Log,
\* each taken no earlier than the one before, the entries handed out by these
\* calls, put end to end, hold every entry of the latest View in append
\* order, and no call after the first starts before the last entry already
\* handed out.
C2_NoLoss ==
  \A r \in Readers, s \in SeqIds :
    LET cs == CallsOn(r, s) IN
    cs # <<>> /\ InSnapshotOrder(cs) =>
      /\ Covered(0, Delivered(cs)) = cs[Len(cs)].vsize
      /\ \A k \in DOMAIN cs :
           LET seen == Delivered(SubSeq(cs, 1, k - 1)) IN
           seen # <<>> /\ cs[k].out # <<>> => cs[k].out[1] >= seen[Len(seen)]

\* C2's case: three calls in snapshot order on a Log that grew in between
C2_Witness ==
  \E r \in Readers, s \in SeqIds :
    LET cs == CallsOn(r, s) IN
    /\ Len(cs) = 3 /\ InSnapshotOrder(cs)
    /\ cs[1].vsize = 1 /\ cs[2].vsize = 2 /\ cs[3].vsize = 2

\* C5 (only unseen entries): each call of a Reader on successive Views of one
\* list hands out exactly the entries of the View that no earlier call of
\* that Reader handed out; nothing new means an empty Iterable.
C5_OnlyUnseen ==
  \A r \in Readers, s \in SeqIds :
    LET cs == CallsOn(r, s) IN
    InSnapshotOrder(cs) =>
      \A k \in DOMAIN cs :
        Range(cs[k].out) =
          (1..cs[k].vsize) \ Range(Delivered(SubSeq(cs, 1, k - 1)))

\* C9 (ordering): the entries handed to one Reader for one list, within each
\* Iterable and over its successive calls, never step back in append order.
C9_DeliveredInOrder ==
  \A r \in Readers, s \in SeqIds : NonDecreasing(Delivered(CallsOn(r, s)))

\* C7 (identity reset): when the list a slot was tracking is destroyed and a
\* new list sits at the same address, the next iterate starts at the View's
\* begin and the slot holds a weak reference to the new list.
C7_IdentityReset ==
  \A rk \in CallIds :
    Call(rk).stale =>
      /\ Call(rk).start = Call(rk).vbegin
      /\ Call(rk).weak = Call(rk).shared
      /\ ~Call(rk).threw

\* C7's case: the slot held a position of the destroyed list that differs
\* from the begin of the new list's View
C7_Witness ==
  \E rk \in CallIds :
    /\ Call(rk).stale
    /\ Call(rk).before = 2 /\ Call(rk).vbegin = 1
    /\ Call(rk).out = <<1>>

\* what Reader r's calls cs return when nobody else calls: iterate run
\* again on r's own Views alone, from the slot m; each call's Iterable is
\* given by where it starts, or the call throws
RECURSIVE Alone(_, _)
Alone(cs, m) ==
  IF cs = <<>> THEN <<>>
  ELSE LET c == Head(cs)
           v == [shared |-> c.shared, begin |-> c.vbegin, last |-> c.vlast]
           m1 == Resume(m, v)
           threw == MakeThrows(m1.last, v.last)
       IN <<[start |-> m1.last, threw |-> threw]>>
            \o Alone(Tail(cs), IF threw THEN m1 ELSE Remember(m1, v))

\* an iterate call on r1 leaves what Reader r2 holds as it was
IterateFrame ==
  \A r1, r2 \in Readers :
    r1 # r2 /\ hist'[r1] # hist[r1] =>
      memories'[r2] = memories[r2] /\ hist'[r2] = hist[r2] /\ cur'[r2] = cur[r2]

\* C8 (independent readers): an iterate call on one Reader leaves the
\* registry of every other Reader unchanged, and what a Reader receives is
\* what it would receive had no other Reader made any call.
C8_IndependentReaders ==
  /\ [][IterateFrame]_vars
  /\ [](\A r \in Readers :
          [k \in DOMAIN hist[r] |->
             [start |-> hist[r][k].start, threw |-> hist[r][k].threw]]
            = Alone(hist[r], NewMemory))

\* C8's case: R1 has iterated twice and stands at entry 2, and R2, calling
\* in between or afterwards, still got the Log from its first entry
C8_Witness ==
  /\ Len(hist["R1"]) = 2 /\ hist["R1"][2].out = <<1, 2>>
  /\ Len(hist["R2"]) = 1 /\ hist["R2"][1].out = <<1, 2>>
  /\ hist["R2"][1].shared = hist["R1"][2].shared

\* C10 (first contact): the first iterate call of a fresh Reader hands out
\* exactly the entries appended before the View was taken, all of them, in
\* append order, each with the tier, time and text it was appended with.
C10_FirstContact ==
  \A rk \in CallIds :
    Call(rk).fresh /\ Alive(Call(rk).shared) =>
      /\ ~Call(rk).threw
      /\ Call(rk).out = [i \in 1..Call(rk).vsize |-> i]
      /\ Call(rk).vals = SubSeq(appended[Call(rk).shared], 1, Call(rk).vsize)

\* C10's case: a fresh Reader reads a Log written by error and by insert
C10_Witness ==
  \E rk \in CallIds :
    /\ Call(rk).fresh /\ Alive(Call(rk).shared)
    /\ Len(Call(rk).vals) = 2
    /\ Call(rk).vals[1].tier = "Error"
    /\ Call(rk).vals[2] \in Foreign
    /\ Len(appended[Call(rk).shared]) = 2

\* the first n entries of list instance s are still there as they were
\* appended, and no other existing list has the address of s
Kept(s, n) ==
  /\ Alive(s)
  /\ Len(entries[s]) >= n
  /\ SubSeq(entries[s], 1, n) = SubSeq(appended[s], 1, n)
  /\ \A t \in SeqIds \ {s} : Alive(t) => addr[t] # addr[s]

\* C11 (resource lifetime): while a View or an Iterable of a list exists,
\* with or without the Log, the list exists: every entry within the View's
\* bounds, and up to the Iterable's boundary, is still there, and no new list
\* has taken its address.
C11_HeldListLives ==
  /\ \A v \in views : Kept(v.shared, v.size)
  /\ \A r \in Readers :
       cur[r] # NoIterable =>
         /\ Kept(cur[r].shared, 0)
         /\ cur[r].pimpl \notin {Null, Fault} =>
              Kept(cur[r].shared, cur[r].pimpl.last)

\* C11's case: the Log and every View are gone, and the consumer has read
\* both entries through the Iterable it still holds
C11_Witness ==
  /\ views = {}
  /\ cur["R1"] # NoIterable
  /\ ~logAlive[cur["R1"].shared]
  /\ cur["R1"].got = <<1, 2>>
  /\ Len(entries[cur["R1"].shared]) = 2

\* what is left of the traversal of Iterable i in a list of n nodes: the
\* positions still to come, and whether the cursor then runs into end()
Rest(i, n) ==
  IF i.pimpl = Fault THEN <<>> ELSE <<Walk(i.pimpl, n), WalkUB(i.pimpl, n)>>

\* C12 (frozen read): an append to the Log leaves what is left of the
\* traversal of every Iterable in existence as it was - the same entries to
\* come, Done at the same point - wherever the cursor stands.
C12_FrozenRead ==
  [][\A r \in Readers, s \in SeqIds :
       /\ cur[r] # NoIterable /\ cur[r].shared = s
       /\ Len(entries'[s]) = Len(entries[s]) + 1
       => Rest(cur[r], Len(entries'[s])) = Rest(cur[r], Len(entries[s]))]_vars

\* the positions a, a+1, ..., b
FromTo(a, b) == [i \in 1..(b - a + 1) |-> a + i - 1]

\* C13 (resume bounds): a call that finds position p recorded for the list,
\* still in existence, on a View taken no earlier than the one that gave p,
\* hands out exactly the entries p, ..., v.last; its first entry is the one
\* the previous call ended with, also when nothing was appended in between.
C13_ResumeBounds ==
  \A r \in Readers, s \in SeqIds :
    LET cs == CallsOn(r, s) IN
    \A k \in DOMAIN cs :
      cs[k].before # None /\ ~cs[k].stale /\ cs[k].vsize >= cs[k].before =>
        /\ ~cs[k].threw
        /\ cs[k].out = FromTo(cs[k].before, cs[k].vlast)
        /\ k > 1 /\ InSnapshotOrder(SubSeq(cs, 1, k)) /\ cs[k - 1].out # <<>> =>
             cs[k].out[1] = cs[k - 1].out[Len(cs[k - 1].out)]

\* C13's case: a call handed out entries 1 and 2, and the next call, on a
\* View of the Log as it was, hands out entry 2 again
C13_Witness ==
  \E r \in Readers, s \in SeqIds :
    LET cs == CallsOn(r, s) IN
    /\ Len(cs) >= 2
    /\ cs[1].out = <<1, 2>>
    /\ cs[2].before = 2 /\ cs[2].vlast = 2 /\ cs[2].out = <<2>>

\* the iterate call that made the Iterable r's consumer holds
Made(r) == LET ok == SelectSeq(hist[r], LAMBDA c : ~c.threw) IN ok[Len(ok)]

\* operator++ on an Active cursor standing at an entry
AdvanceStep ==
  \A r \in Readers :
    /\ cur[r] # NoIterable /\ cur'[r] # NoIterable /\ hist' = hist
    /\ cur'[r].pimpl # cur[r].pimpl
    /\ cur[r].pimpl \notin {Null, Fault}
    /\ cur[r].pimpl.it # End
    => LET c == cur[r].pimpl
           n == Len(entries[cur[r].shared])
       IN IF c.it = c.last THEN cur'[r].pimpl = Null
          ELSE c.it < n => cur'[r].pimpl = [it |-> c.it + 1, last |-> c.last]

\* what has been read through an Iterable made with its cursor at or before
\* its boundary
YieldsEachOnce ==
  \A r \in Readers :
    cur[r] # NoIterable /\ Made(r).start # None /\ Made(r).start <= Made(r).vlast =>
      LET i == cur[r]
          a == Made(r).start
          b == Made(r).vlast
      IN IF i.pimpl \in {Null, Fault} THEN i.got = FromTo(a, b)
         ELSE /\ i.pimpl.it \in a..b /\ i.pimpl.last = b
              /\ i.got = FromTo(a, IF Unread(i) THEN i.pimpl.it - 1 ELSE i.pimpl.it)

\* C14 (cursor advance): operator++ on an Active cursor makes it Done when
\* its position is its boundary and otherwise moves the position to the next
\* entry, boundary unchanged; so an Iterable whose cursor starts at or before
\* its boundary yields the entries from there through the boundary, each
\* once, in order, and is then Done - with or without appends in between.
C14_CursorAdvance == [][AdvanceStep]_vars /\ []YieldsEachOnce

\* C14's case: a traversal from entry 1 through boundary 2 has reached Done,
\* the Log having grown to three entries meanwhile
C14_Witness ==
  /\ cur["R1"] # NoIterable
  /\ cur["R1"].pimpl = Null
  /\ cur["R1"].got = <<1, 2>>
  /\ Len(entries[cur["R1"].shared]) = 3

\* operator++ on a Done cursor
DoneStep ==
  \A r \in Readers :
    /\ cur[r] # NoIterable /\ cur'[r] # NoIterable /\ hist' = hist
    /\ cur[r].pimpl = Null
    => cur'[r].pimpl = Null

\* operator== against the end sentinel
DoneEq ==
  \A r \in Readers :
    cur[r] # NoIterable /\ cur[r].pimpl # Fault =>
      (IteratorEq(cur[r].pimpl, Null) <=> cur[r].pimpl = Null)

\* C15 (Done is terminal): advancing a Done cursor leaves it Done without a
\* fault, and a cursor compares equal to the end sentinel exactly when it is
\* Done.
C15_DoneTerminal == [][DoneStep]_vars /\ []DoneEq

\* the slot of the list of Reader r's latest call, if that call returned,
\* records the last bound of the View passed
RecordsViewLast ==
  \A r \in Readers :
    hist[r] # <<>> =>
      LET c == hist[r][Len(hist[r])] IN
      ~c.threw =>
        /\ c.after = c.vlast
        /\ memories[r][addr[c.shared]].last = c.vlast

\* C16 (position advances at iterate time only): every step that is not an
\* iterate call - a read through the cursor, an advance, the release of the
\* Iterable - leaves every Reader's registry as it was; so after an iterate
\* call has returned its Iterable the slot records the View's last bound,
\* however much of the Iterable is consumed.
C16_IterateOnlyMoves ==
  /\ [][hist' = hist => memories' = memories]_vars
  /\ []RecordsViewLast

\* C16's case: the consumer has read the first of two entries and stands at
\* the second; the slot already records the second
C16_Witness ==
  /\ cur["R1"] # NoIterable
  /\ cur["R1"].got = <<1>>
  /\ cur["R1"].pimpl = [it |-> 2, last |-> 2]
  /\ memories["R1"][addr[cur["R1"].shared]].last = 2

\* C17 (empty first contact, then growth): when all earlier calls of a Reader
\* on a list were on Views taken while it was empty, its next call on a
\* non-empty View finds the slot tracking the list with no position, starts
\* at the View's begin and hands out every entry of the View.
C17_EmptyThenGrowth ==
  \A r \in Readers, s \in SeqIds :
    LET cs == CallsOn(r, s) IN
    \A k \in DOMAIN cs :
      /\ k > 1 /\ cs[k].vsize > 0
      /\ \A j \in 1..(k - 1) : cs[j].vsize = 0
      => /\ ~cs[k].fresh /\ ~cs[k].stale /\ cs[k].before = None
         /\ ~cs[k].threw
         /\ cs[k].start = cs[k].vbegin
         /\ cs[k].out = FromTo(1, cs[k].vsize)

\* C17's case: a call on the empty Log, then a call on a View of two entries
C17_Witness ==
  \E r \in Readers, s \in SeqIds :
    LET cs == CallsOn(r, s) IN
    /\ Len(cs) >= 2
    /\ cs[1].vsize = 0 /\ cs[1].out = <<>>
    /\ cs[2].vsize = 2 /\ cs[2].out = <<1, 2>>

\* C18 (traversal within bounds): whatever calls came before, the cursor of
\* an Iterable never stands past the last bound of the View it was made
\* from, nor at the end of the list, and it is Done after at most as many
\* reads as the View has entries, all of them entries of the View.
C18_TraversalInBounds ==
  \A r \in Readers :
    cur[r] # NoIterable =>
      /\ Len(cur[r].got) <= Made(r).vsize
      /\ \A p \in Range(cur[r].got) : p \in 1..Made(r).vsize
      /\ cur[r].pimpl \notin {Null, Fault} =>
           /\ cur[r].pimpl.it # End
           /\ cur[r].pimpl.it <= cur[r].pimpl.last
           /\ cur[r].pimpl.last = Made(r).vlast
====
